---- MODULE Spec2Model ----
(***************************************************************************)
(* Model of AzureQueryBuilderComponent (azure-query-builder.component.ts): *)
(* the Group/Clause query tree, its factories, its mutators, the field     *)
(* catalog lookups and serializeGroup.                                     *)
(*                                                                         *)
(* JavaScript objects are heap cells: `heap` is the sequence of the live   *)
(* objects, an address is a place in it, a Group's `clauses` array is a    *)
(* sequence of addresses, and `rootGroup` is an address.  Object identity  *)
(* (`!==` in the template) is address equality; an `id` is only a field.   *)
(* Strings that the code inspects character by character (the ids) are     *)
(* sequences of one-character strings.                                     *)
(***************************************************************************)
EXTENDS Integers, Sequences, FiniteSets

\* ---------------------------------------------------------------- bounds
\* Live objects (root included) the heap can hold.
MaxNodes == 3

\* ------------------------------------------------------------ JS values
\* The JavaScript value `undefined` (of an optional string property).
undefined == "undefined"

\* The suffixes Math.random().toString(36).substr(2, 9) is drawn from here.
Suffixes == { <<"a">>, <<"b">> }

\* Values the field select, the value input and the logic select can write.
FieldInputs == { undefined, "State", "Priority" }
ValueInputs == { "", "x" }
LogicInputs == { "AND", "OR" }

\* String.prototype.startsWith
startsWith(s, p) == Len(s) >= Len(p) /\ SubSeq(s, 1, Len(p)) = p

\* uid(prefix): prefix + a random base-36 suffix; the random draw is `rnd`.
uid(prefix, rnd) == prefix \o rnd

\* Array.prototype.splice(start, deleteCount), the array that is left.
splice(arr, start, deleteCount) ==
  LET len == Len(arr)
      s == IF start < 0
             THEN (IF len + start < 0 THEN 0 ELSE len + start)
             ELSE (IF start > len THEN len ELSE start)
      dc0 == IF deleteCount < 0 THEN 0 ELSE deleteCount
      dc == IF dc0 > len - s THEN len - s ELSE dc0
  IN  SubSeq(arr, 1, s) \o SubSeq(arr, s + dc + 1, len)

\* ------------------------------------------------------------ the catalog
DEFAULT_FIELDS ==
  << [key |-> "Title", label |-> "Title", type |-> "string",
      operators |-> <<"contains", "equals", "not equals", "startsWith">>],
     [key |-> "State", label |-> "State", type |-> "string",
      operators |-> <<"equals", "not equals">>],
     [key |-> "AssignedTo", label |-> "Assigned To", type |-> "string",
      operators |-> <<"equals", "not equals">>],
     [key |-> "Priority", label |-> "Priority", type |-> "number",
      operators |-> <<"=", "!=", "<", ">">>],
     [key |-> "CreatedDate", label |-> "Created Date", type |-> "date",
      operators |-> <<"before", "after", "on">>],
     [key |-> "IsActive", label |-> "Is Active", type |-> "boolean",
      operators |-> <<"is", "is not">>] >>

\* this.fields
fields == DEFAULT_FIELDS

VARIABLES
  heap,       \* address -> object, for every live Group and Clause
  rootGroup,  \* this.rootGroup, an address
  last,       \* the call that produced this state
  ret         \* what that call returned (JS undefined for a void method)

vars == << heap, rootGroup, last, ret >>

\* ------------------------------------------------------------- factories
newGroup(rnd) == [id |-> uid(<<"g", "_">>, rnd), logic |-> "AND", clauses |-> << >>]

newClause(rnd) ==
  [id |-> uid(<<"c", "_">>, rnd), field |-> undefined, operator |-> undefined,
   value |-> ""]

\* isClause(item): the variant test, by id prefix.
isClause(item) == startsWith(item.id, <<"c", "_">>)

\* ----------------------------------------------------------------- heap
\* What an object really is, by its shape.
IsGroupObj(o) == "clauses" \in DOMAIN o
IsClauseObj(o) == "field" \in DOMAIN o

Range(s) == { s[i] : i \in 1..Len(s) }

Children(h, a) == IF IsGroupObj(h[a]) THEN Range(h[a].clauses) ELSE {}

RECURSIVE ReachFrom(_, _, _)
ReachFrom(h, S, k) ==
  IF k = 0 THEN S
  ELSE LET T == S \cup UNION { Children(h, a) : a \in S }
       IN  IF T = S THEN S ELSE ReachFrom(h, T, k - 1)

\* The objects reachable from r: the tree under r.
Reach(h, r) == ReachFrom(h, {r}, Len(h))

\* The live objects in the order a depth-first walk from the root first
\* meets them.
RECURSIVE Walk(_, _, _)
Walk(h, stack, seen) ==
  IF stack = << >> THEN seen
  ELSE LET a == Head(stack)
       IN  IF a \in Range(seen)
             THEN Walk(h, Tail(stack), seen)
             ELSE Walk(h, (IF IsGroupObj(h[a]) THEN h[a].clauses ELSE << >>)
                            \o Tail(stack),
                       Append(seen, a))

\* Garbage collection.  Objects not reachable from the root are gone, and
\* the live ones are renamed by their place in the walk, so that a heap is
\* the sequence of its live objects and the root is its first element
\* (rootGroup is address 1 in every state).  An address names an object
\* within one state; a program cannot observe it.
Collect(h, r) ==
  LET order == Walk(h, << r >>, << >>)
      new(a) == CHOOSE i \in 1..Len(order) : order[i] = a
  IN  [i \in 1..Len(order) |->
         IF IsGroupObj(h[order[i]])
           THEN [h[order[i]] EXCEPT
                   !.clauses = [j \in 1..Len(@) |-> new(@[j])]]
           ELSE h[order[i]]]

\* The address of the next object created.
Fresh(h) == Len(h) + 1

Store(h, a, o) == [b \in DOMAIN h \cup {a} |-> IF b = a THEN o ELSE h[b]]

Groups(h) == { a \in DOMAIN h : IsGroupObj(h[a]) }
Clauses(h) == { a \in DOMAIN h : IsClauseObj(h[a]) }

\* ------------------------------------------------------ catalog lookups
\* Array.prototype.find over this.fields by key: the index of the first
\* field whose key is `k`, 0 when find returns undefined.
findField(k) ==
  LET hits == { i \in 1..Len(fields) : fields[i].key = k }
  IN  IF hits = {} THEN 0 ELSE CHOOSE i \in hits : \A j \in hits : i <= j

operatorsForClause(clause) ==
  LET f == findField(clause.field)
  IN  IF f # 0 THEN fields[f].operators ELSE << >>

\* valueInputType with another default.
valueInputTypeText(clause) ==
  LET f == findField(clause.field)
  IN  IF f # 0 THEN fields[f].type ELSE "text"

valueInputType(clause) ==
  LET f == findField(clause.field)
  IN  IF f # 0 THEN fields[f].type ELSE "string"

\* -------------------------------------------------------------- mutators
\* addClause(group): group.clauses.push(this.newClause())
addClause(h, group, rnd) ==
  LET a == Fresh(h)
  IN  Store([h EXCEPT ![group].clauses = Append(@, a)], a, newClause(rnd))

\* addGroup pushing the new group twice.
addGroupTwice(h, parent, rnd) ==
  LET a == Fresh(h)
  IN  Store([h EXCEPT ![parent].clauses = Append(Append(@, a), a)], a, newGroup(rnd))

\* addGroup(parent): parent.clauses.push(this.newGroup())
addGroup(h, parent, rnd) ==
  LET a == Fresh(h)
  IN  Store([h EXCEPT ![parent].clauses = Append(@, a)], a, newGroup(rnd))

\* removeClause taking the index as a 1-based position.
removeClauseOneBased(h, group, index) ==
  [h EXCEPT ![group].clauses = splice(@, index + 1, 1)]

\* removeClause(group, index): group.clauses.splice(index, 1)
removeClause(h, group, index) ==
  [h EXCEPT ![group].clauses = splice(@, index, 1)]

\* parentGroup.clauses.findIndex(c => !isClause(c) && c.id === id):
\* the 0-based index of the first match, -1 when there is none.
findGroupIndex(h, arr, id) ==
  LET hits == { i \in 1..Len(arr) : ~isClause(h[arr[i]]) /\ h[arr[i]].id = id }
  IN  IF hits = {} THEN -1
      ELSE (CHOOSE i \in hits : \A j \in hits : i <= j) - 1

RECURSIVE removeGroup(_, _, _)
RECURSIVE removeGroupLoop(_, _, _, _)

\* removeGroup(groupToRemove, parentGroup)
removeGroup(h, groupToRemove, parentGroup) ==
  LET idx == findGroupIndex(h, h[parentGroup].clauses, groupToRemove.id)
  IN  IF idx # -1
        THEN [h EXCEPT ![parentGroup].clauses = splice(@, idx, 1)]
        ELSE removeGroupLoop(h, groupToRemove, parentGroup, 1)

\* for (const item of parentGroup.clauses), from the i-th element on
removeGroupLoop(h, groupToRemove, parentGroup, i) ==
  IF i > Len(h[parentGroup].clauses) THEN h
  ELSE LET item == h[parentGroup].clauses[i]
           h2 == IF ~isClause(h[item])
                   THEN removeGroup(h, groupToRemove, item)
                   ELSE h
       IN  removeGroupLoop(h2, groupToRemove, parentGroup, i + 1)

\* onFieldChange that keeps the value.
onFieldChangeKeepValue(h, clause) ==
  [h EXCEPT ![clause].operator = undefined]

\* onFieldChange(clause)
onFieldChange(h, clause) ==
  [h EXCEPT ![clause].operator = undefined, ![clause].value = ""]

\* ------------------------------------------------------------ serializer
RECURSIVE serializeGroup(_, _)

\* serializeGroup that does not descend into a nested group.
serializeGroupShallow(h, group) ==
  LET part(item) ==
        IF isClause(h[item])
          THEN [type |-> "clause", field |-> h[item].field,
                operator |-> h[item].operator, value |-> h[item].value]
          ELSE [type |-> "group", logic |-> h[item].logic,
                group |-> [logic |-> h[item].logic, parts |-> << >>]]
      parts == [i \in 1..Len(h[group].clauses) |-> part(h[group].clauses[i])]
  IN  [logic |-> h[group].logic, parts |-> parts]

serializeGroup(h, group) ==
  LET part(item) ==
        IF isClause(h[item])
          THEN [type |-> "clause", field |-> h[item].field,
                operator |-> h[item].operator, value |-> h[item].value]
          ELSE [type |-> "group", logic |-> h[item].logic,
                group |-> serializeGroup(h, item)]
      parts == [i \in 1..Len(h[group].clauses) |-> part(h[group].clauses[i])]
  IN  [logic |-> h[group].logic, parts |-> parts]

\* ------------------------------------------------------------ the calls
\* The record of a call: the method, the object it was given (0 when the
\* record does not keep it), the key it was given, and a note on what the
\* call found: "undo" when removeClause took back the clause that the call
\* right before it had appended, "set" when onFieldChange was given a
\* clause that held an operator and a non-empty value.
Call(op, node, key, note) == [op |-> op, node |-> node, key |-> key, note |-> note]

\* What a call that throws leaves in `ret`; no statement of the component
\* throws.
Thrown == "thrown"

\* The first draw of a fresh component.  Which suffix Math.random gives
\* first does not matter, only which later draws repeat it: the suffixes
\* can be renamed so that the first one is this one.
FirstDraw == << "a" >>

\* The component after construction: rootGroup = newGroup(), then the
\* constructor seeds it with one empty clause.
Constructed(h, r) ==
  \E r2 \in Suffixes :
    /\ r = 1
    /\ h = addClause(<< newGroup(FirstDraw) >>, 1, r2)

Init ==
  /\ Constructed(heap, rootGroup)
  /\ last = Call("constructor", 0, undefined, "")
  /\ ret = undefined

\* addClause(group) with the random draw rnd.
AddClauseTo(group, rnd) ==
  /\ Len(heap) < MaxNodes
  /\ heap' = Collect(addClause(heap, group, rnd), rootGroup)
  /\ last' = Call("addClause", group, undefined, "")
  /\ UNCHANGED rootGroup
  /\ ret' = undefined

\* The "+ Clause" button of a group.
AddClause == \E group \in Groups(heap), rnd \in Suffixes : AddClauseTo(group, rnd)

\* addGroup(parent) with the random draw rnd.
AddGroupTo(parent, rnd) ==
  /\ Len(heap) < MaxNodes
  /\ heap' = Collect(addGroup(heap, parent, rnd), rootGroup)
  /\ last' = Call("addGroup", 0, undefined, "")
  /\ UNCHANGED rootGroup
  /\ ret' = undefined

\* The "+ Group" button of a group.
AddGroup == \E parent \in Groups(heap), rnd \in Suffixes : AddGroupTo(parent, rnd)

\* The indexes removeClause is called with: every position of the array,
\* one past its end, and -1.
IndexInputs(h, group) == (0 - 1) .. Len(h[group].clauses)

\* removeClause(group, index)
RemoveClauseAt(group, index) ==
  /\ heap' = Collect(removeClause(heap, group, index), rootGroup)
  /\ last' = Call("removeClause", 0, undefined,
                  IF /\ last.op = "addClause"
                     /\ last.node = group
                     /\ index = Len(heap[group].clauses) - 1
                    THEN "undo" ELSE "")
  /\ UNCHANGED rootGroup
  /\ ret' = undefined

\* The "x" button calls removeClause with the clause's index.
RemoveClause ==
  \E group \in Groups(heap) :
    \E index \in IndexInputs(heap, group) : RemoveClauseAt(group, index)

\* removeGroup(groupToRemove), parentGroup defaulting to this.rootGroup.
RemoveGroupOf(groupToRemove) ==
  /\ heap' = Collect(removeGroup(heap, groupToRemove, rootGroup), rootGroup)
  /\ last' = Call("removeGroup", 0, undefined, "")
  /\ UNCHANGED rootGroup
  /\ ret' = undefined

\* removeGroup(group) on a group of the tree, the root included; the
\* "Remove Group" button calls it for the non-root groups.
RemoveGroup == \E target \in Groups(heap) : RemoveGroupOf(heap[target])

\* removeGroup(group) on a Group object that is not in the tree.
RemoveDetachedGroup == \E rnd \in Suffixes : RemoveGroupOf(newGroup(rnd))

\* The field select of a clause: ngModel writes clause.field, then
\* ngModelChange calls onFieldChange(clause).
setClauseField(h, clause, key) ==
  onFieldChange([h EXCEPT ![clause].field = key], clause)

SetClauseFieldOf(clause, key) ==
  /\ heap' = setClauseField(heap, clause, key)
  /\ last' = Call("onFieldChange", 0, key,
                  IF heap[clause].operator # undefined /\ heap[clause].value # ""
                    THEN "set" ELSE "")
  /\ UNCHANGED rootGroup
  /\ ret' = undefined

SetClauseField ==
  \E clause \in Clauses(heap), key \in FieldInputs : SetClauseFieldOf(clause, key)

\* What the operator select of a clause can write: its "-- op --" option
\* and the first of the options operatorsForClause gives it.
OperatorInputs(clause) ==
  LET ops == operatorsForClause(clause)
  IN  {undefined} \cup (IF ops = << >> THEN {} ELSE { ops[1] })

\* The operator select of a clause (ngModel only); a select reports a
\* change only when another option is chosen.
SetClauseOperator ==
  \E clause \in Clauses(heap) :
    \E op \in OperatorInputs(heap[clause]) :
      /\ op # heap[clause].operator
      /\ heap' = [heap EXCEPT ![clause].operator = op]
      /\ last' = Call("ngModel", 0, undefined, "")
      /\ UNCHANGED rootGroup
      /\ ret' = undefined

\* The text input of a clause (ngModel only), shown for 'string' fields and
\* by default; an input reports a change only when its text changes.
SetClauseValue ==
  \E clause \in Clauses(heap), v \in ValueInputs :
    /\ valueInputType(heap[clause]) = "string"
    /\ v # heap[clause].value
    /\ heap' = [heap EXCEPT ![clause].value = v]
    /\ last' = Call("ngModel", 0, undefined, "")
    /\ UNCHANGED rootGroup
    /\ ret' = undefined

\* The Match select of a group (ngModel only); a select reports a change
\* only when another option is chosen.
SetGroupLogic ==
  \E group \in Groups(heap), l \in LogicInputs :
    /\ l # heap[group].logic
    /\ heap' = [heap EXCEPT ![group].logic = l]
    /\ last' = Call("ngModel", 0, undefined, "")
    /\ UNCHANGED rootGroup
    /\ ret' = undefined

\* clear(): rootGroup = newGroup(); addClause(rootGroup).  The old tree is
\* garbage from the assignment on.
Clear ==
  /\ Constructed(heap', rootGroup')
  /\ last' = Call("clear", 0, undefined, "")
  /\ ret' = undefined

\* serializeGroup that sets the logic of the group it is given.
SerializeGroupWriting(group) ==
  /\ ret' = serializeGroup(heap, group)
  /\ last' = Call("serializeGroup", group, undefined, "")
  /\ heap' = [heap EXCEPT ![group].logic = "AND"]
  /\ UNCHANGED rootGroup

\* serializeGroup(group)
SerializeGroupOf(group) ==
  /\ ret' = serializeGroup(heap, group)
  /\ last' = Call("serializeGroup", group, undefined, "")
  /\ UNCHANGED << heap, rootGroup >>

SerializeGroup == \E group \in Groups(heap) : SerializeGroupOf(group)

\* operatorsForClause(clause), called by the template for every clause.
OperatorsForClause ==
  \E clause \in Clauses(heap) :
    /\ ret' = operatorsForClause(heap[clause])
    /\ last' = Call("operatorsForClause", 0, undefined, "")
    /\ UNCHANGED << heap, rootGroup >>

\* valueInputType(clause), called by the template for every clause.
ValueInputType ==
  \E clause \in Clauses(heap) :
    /\ ret' = valueInputType(heap[clause])
    /\ last' = Call("valueInputType", 0, undefined, "")
    /\ UNCHANGED << heap, rootGroup >>

Next ==
  \/ AddClause
  \/ AddGroup
  \/ RemoveClause
  \/ RemoveGroup
  \/ RemoveDetachedGroup
  \/ SetClauseField
  \/ SetClauseOperator
  \/ SetClauseValue
  \/ SetGroupLogic
  \/ Clear
  \/ SerializeGroup
  \/ OperatorsForClause
  \/ ValueInputType

Spec == Init /\ [][Next]_vars

\* ================================================================ claims

\* C1.  For every non-root Group T of the tree, removeGroup(T, root) removes
\* exactly T and T's descendants and leaves every other node under the same
\* parent in the same relative order; removeGroup of a Group that is not in
\* the tree leaves the tree unchanged.
RemoveGroupRemovesExactlyTarget ==
  /\ \A T \in Groups(heap) \ {rootGroup} :
       LET h2 == removeGroup(heap, heap[T], rootGroup)
           gone == Reach(heap, T)
       IN  /\ Reach(h2, rootGroup) = (DOMAIN heap) \ gone
           /\ \A a \in (DOMAIN heap) \ gone :
                h2[a] = IF IsGroupObj(heap[a])
                          THEN [heap[a] EXCEPT
                                  !.clauses = SelectSeq(@, LAMBDA x : x # T)]
                          ELSE heap[a]
  /\ \A rnd \in Suffixes :
       removeGroup(heap, newGroup(rnd), rootGroup) = heap

\* C2.  removeGroup(root, root) is rejected: the root survives and the whole
\* tree is unchanged.
RemoveRootIsRejected ==
  LET h2 == removeGroup(heap, heap[rootGroup], rootGroup)
  IN  /\ rootGroup \in DOMAIN h2
      /\ h2 = heap

\* C3.  No two nodes of the tree share an id (an id handed out while its
\* first holder is still in the tree makes two nodes share it).
UniqueIds ==
  \A a \in DOMAIN heap, b \in DOMAIN heap : a # b => heap[a].id # heap[b].id

\* C4 as stated: the parts carry the discriminant `kind`.
SerializedAsKind(h, G) ==
  LET d == serializeGroup(h, G)
      ch == h[G].clauses
  IN  /\ d.logic = h[G].logic
      /\ Len(d.parts) = Len(ch)
      /\ \A i \in 1..Len(ch) :
           d.parts[i] =
             IF IsClauseObj(h[ch[i]])
               THEN [kind |-> "clause", field |-> h[ch[i]].field,
                     operator |-> h[ch[i]].operator, value |-> h[ch[i]].value]
               ELSE [kind |-> "group", logic |-> h[ch[i]].logic,
                     group |-> serializeGroup(h, ch[i])]

\* C4 as the code has it: the parts carry the discriminant `type`.
SerializedAsType(h, G) ==
  LET d == serializeGroup(h, G)
      ch == h[G].clauses
  IN  /\ DOMAIN d = {"logic", "parts"}
      /\ d.logic = h[G].logic
      /\ Len(d.parts) = Len(ch)
      /\ \A i \in 1..Len(ch) :
           d.parts[i] =
             IF IsClauseObj(h[ch[i]])
               THEN [type |-> "clause", field |-> h[ch[i]].field,
                     operator |-> h[ch[i]].operator, value |-> h[ch[i]].value]
               ELSE [type |-> "group", logic |-> h[ch[i]].logic,
                     group |-> serializeGroup(h, ch[i])]

\* A root with one fresh clause followed by one fresh empty group.
FreshClauseThenFreshGroup ==
  /\ Len(heap) = 3
  /\ heap[rootGroup].logic = "AND"
  /\ Len(heap[rootGroup].clauses) = 2
  /\ \E r \in Suffixes : heap[heap[rootGroup].clauses[1]] = newClause(r)
  /\ \E r \in Suffixes : heap[heap[rootGroup].clauses[2]] = newGroup(r)

\* C4 (original).  serialize(G) has G's logic and one part per child, in
\* order: { kind: "clause", field, operator, value } for a Clause and
\* { kind: "group", logic, group: serialize(child) } for a Group.
SerializeMirrorsChildrenKind ==
  /\ \A G \in Groups(heap) : SerializedAsKind(heap, G)
  /\ FreshClauseThenFreshGroup =>
       serializeGroup(heap, rootGroup) =
         [logic |-> "AND",
          parts |-> << [kind |-> "clause", field |-> undefined,
                        operator |-> undefined, value |-> ""],
                       [kind |-> "group", logic |-> "AND",
                        group |-> [logic |-> "AND", parts |-> << >>]] >>]

\* The document of the scenario, as the code writes it.
ScenarioDocument ==
  [logic |-> "AND",
   parts |-> << [type |-> "clause", field |-> undefined,
                 operator |-> undefined, value |-> ""],
                [type |-> "group", logic |-> "AND",
                 group |-> [logic |-> "AND", parts |-> << >>]] >>]

\* C4 (amended).  serialize(G) has G's logic and one part per child, in
\* order: { type: "clause", field, operator, value } for a Clause and
\* { type: "group", logic, group: serialize(child) } for a Group; the root
\* with one fresh clause and one fresh empty group gives ScenarioDocument.
SerializeMirrorsChildren ==
  /\ \A G \in Groups(heap) : SerializedAsType(heap, G)
  /\ FreshClauseThenFreshGroup => serializeGroup(heap, rootGroup) = ScenarioDocument
  /\ last.op = "serializeGroup" => ret = serializeGroup(heap, last.node)

\* C4 witness: serializeGroup(root) has returned the scenario's document.
SerializedScenario ==
  /\ last.op = "serializeGroup"
  /\ last.node = rootGroup
  /\ FreshClauseThenFreshGroup
  /\ ret = ScenarioDocument

\* C5.  serializeGroup terminates on every tree, leaves the tree unchanged,
\* and called again on the same group returns the same document.
SerializeIsPure ==
  [][\A G \in Groups(heap) :
       (last'.op = "serializeGroup" /\ SerializeGroupOf(G)) =>
         /\ heap' = heap
         /\ rootGroup' = rootGroup
         /\ (last.op = "serializeGroup" /\ last.node = G) => ret' = ret]_vars

\* C5 witness: a nested group holding an edited clause has been serialized.
SerializedNested ==
  /\ last.op = "serializeGroup"
  /\ last.node = rootGroup
  /\ \E g \in Groups(heap) \ {rootGroup} :
       \E i \in 1..Len(heap[g].clauses) :
         /\ IsClauseObj(heap[heap[g].clauses[i]])
         /\ heap[heap[g].clauses[i]].value = "x"

\* C6.  Setting a clause's field to a key leaves the clause with that
\* field, operator undefined and value "", whatever it held, and changes
\* no other clause or group.
FieldChangeResets ==
  /\ \A c \in Clauses(heap), k \in FieldInputs :
       LET h2 == setClauseField(heap, c, k)
       IN  /\ h2[c] = [id |-> heap[c].id, field |-> k, operator |-> undefined,
                       value |-> ""]
           /\ DOMAIN h2 = DOMAIN heap
           /\ \A a \in DOMAIN heap : a # c => h2[a] = heap[a]
  /\ last.op = "onFieldChange" =>
       \E c \in Clauses(heap) :
         /\ heap[c].field = last.key
         /\ heap[c].operator = undefined
         /\ heap[c].value = ""

\* C6 witness: the field of a clause that held an operator and the value
\* "x" has been set to Priority.
FieldChangedOnSetClause ==
  /\ last.op = "onFieldChange"
  /\ last.note = "set"
  /\ last.key = "Priority"
  /\ \E c \in Clauses(heap) :
       heap[c].field = "Priority" /\ heap[c].operator = undefined
                                  /\ heap[c].value = ""

\* The children of `group` without the one at the 0-based `index`.
WithoutChildAt(h, group, index) ==
  [j \in 1..(Len(h[group].clauses) - 1) |->
     IF j <= index THEN h[group].clauses[j] ELSE h[group].clauses[j + 1]]

\* C7.  removeClause with an index outside 0 <= index < len fails fast: it
\* removes nothing and does not return normally; with an index in range it
\* removes exactly the child at that index.
RemoveClauseOutOfRangeFailsFast ==
  [][\A g \in Groups(heap) :
       \A i \in IndexInputs(heap, g) :
         (last'.op = "removeClause" /\ RemoveClauseAt(g, i)) =>
           IF 0 <= i /\ i < Len(heap[g].clauses)
             THEN heap' = Collect([heap EXCEPT ![g].clauses =
                                     WithoutChildAt(heap, g, i)], rootGroup)
             ELSE heap' = heap /\ ret' = Thrown]_vars

\* C8.  addClause(G) followed at once by removeClause(G, index of the
\* appended clause) gives back the tree as it was: G's children and every
\* other group.
AddThenRemoveClauseRestores ==
  \A g \in Groups(heap), rnd \in Suffixes :
    LET h1 == addClause(heap, g, rnd)
        h2 == removeClause(h1, g, Len(h1[g].clauses) - 1)
    IN  /\ Len(h1[g].clauses) = Len(heap[g].clauses) + 1
        /\ Len(h2[g].clauses) = Len(heap[g].clauses)
        /\ Fresh(heap) \notin Range(h2[g].clauses)
        /\ \A a \in DOMAIN heap : h2[a] = heap[a]

\* C8 witness: removeClause has taken back the clause appended right
\* before it, in a tree that has a nested group.
ClauseAddedThenRemoved ==
  /\ last.op = "removeClause"
  /\ last.note = "undo"
  /\ Groups(heap) # {rootGroup}

\* The catalog as a table: the keys, and the entry of a key.
CatalogKeys == { fields[i].key : i \in 1..Len(fields) }
EntryOf(k) == CHOOSE f \in Range(fields) : f.key = k

\* The fields the lookups are probed with: every key of the catalog, the
\* unset field and a key the catalog does not have.
ProbeFields == CatalogKeys \cup { undefined, "Tags" }

\* The lookups on `clause` follow the catalog, `dflt` being the input kind
\* of a field that is unset or unknown.
LookupFollowsCatalog(clause, dflt) ==
  IF clause.field \in CatalogKeys
    THEN /\ operatorsForClause(clause) = EntryOf(clause.field).operators
         /\ valueInputType(clause) = EntryOf(clause.field).type
    ELSE /\ operatorsForClause(clause) = << >>
         /\ valueInputType(clause) = dflt

LookupsFollowCatalog(dflt) ==
  /\ \A k \in ProbeFields :
       LookupFollowsCatalog([newClause(<< "a" >>) EXCEPT !.field = k], dflt)
  /\ \A c \in Clauses(heap) : LookupFollowsCatalog(heap[c], dflt)
  /\ LET priority == [newClause(<< "a" >>) EXCEPT !.field = "Priority"]
     IN  /\ operatorsForClause(priority) = << "=", "!=", "<", ">" >>
         /\ valueInputType(priority) = "number"
  /\ last.op = "operatorsForClause" =>
       \E c \in Clauses(heap) : ret = operatorsForClause(heap[c])
  /\ last.op = "valueInputType" =>
       \E c \in Clauses(heap) : ret = valueInputType(heap[c])

\* A lookup leaves the tree as it is.
LookupsChangeNothing ==
  [][last'.op \in {"operatorsForClause", "valueInputType"} =>
       heap' = heap /\ rootGroup' = rootGroup]_vars

\* C9 (original).  A clause whose field is in the catalog gets that field's
\* operators and type; a clause whose field is unset or unknown gets no
\* operators and the input kind "text"; the lookups change nothing.
LookupsDefaultToText == [](LookupsFollowCatalog("text")) /\ LookupsChangeNothing

\* C9 (amended).  As above, with the input kind "string" for a clause whose
\* field is unset or unknown.
LookupsDefaultToString == [](LookupsFollowCatalog("string")) /\ LookupsChangeNothing

\* C9 witness: valueInputType has answered for clauses with no field set.
LookedUpUnsetField ==
  /\ last.op = "valueInputType"
  /\ ret = "string"
  /\ \A c \in Clauses(heap) : heap[c].field = undefined

\* How often `a` occurs in the children lists of the heap.
Occurrences(h, a) ==
  Cardinality({ p \in Groups(h) \X (1..Len(h)) :
                  p[2] <= Len(h[p[1]].clauses) /\ h[p[1]].clauses[p[2]] = a })

\* C10.  The structure is a tree under one root Group: the root is a Group
\* and nobody's child, every other node is in exactly one children list
\* exactly once, no group is its own descendant, and the variant test
\* takes every Clause for a Clause and every Group for a Group.
IsTree ==
  /\ rootGroup \in DOMAIN heap
  /\ IsGroupObj(heap[rootGroup])
  /\ Occurrences(heap, rootGroup) = 0
  /\ \A a \in (DOMAIN heap) \ {rootGroup} : Occurrences(heap, a) = 1
  /\ \A g \in Groups(heap) :
       /\ Range(heap[g].clauses) \subseteq DOMAIN heap
       /\ g \notin UNION { Reach(heap, c) : c \in Range(heap[g].clauses) }
  /\ \A a \in DOMAIN heap :
       /\ IsClauseObj(heap[a]) # IsGroupObj(heap[a])
       /\ isClause(heap[a]) <=> IsClauseObj(heap[a])

\* C10 witness: after a removal, a root with a nested group that has a
\* child of its own.
NestedTreeAfterRemoval ==
  /\ last.op \in {"removeClause", "removeGroup"}
  /\ \E g \in Groups(heap) \ {rootGroup} : heap[g].clauses # << >>

====
